---- MODULE Spec2Model ----
(***************************************************************************)
(* Model of mcp-scripts/semantic-knowledge-graph-rag.py: the tools of the  *)
(* Neo4jProjectMCP server and the Cypher statements they run against the   *)
(* graph store.                                                            *)
(*                                                                         *)
(* The store is a property graph.  A node has an identity (a number here)  *)
(* that is distinct from its `id` property: the Cypher statements match    *)
(* nodes by the property, and nothing in the source declares the property  *)
(* unique (lines 10-15 create a full-text and a vector index only).        *)
(***************************************************************************)
EXTENDS Integers, Sequences, FiniteSets, TLC

(***************************************************************************)
(* Bounds of the model.                                                    *)
(***************************************************************************)
\* uuid4() values handed out (line 41, line 45); also bounds the upserts
MaxUuid == 4

\* project_id values a caller supplies by itself; 0 stands for an absent
\* (falsy) project_id, uuid4 values are 1, 2, ...
ProjectIds == {101, 102}
NoId == 0
\* uuid4() values handed out while statements overlap
MaxConcUuid == 3
\* uuid4() values handed out in the runs with searches
MaxSearchUuid == 4
\* uuid4() values handed out in the runs with searches over two projects
MaxHydrateUuid == 2
\* uuid4() values handed out in the runs with failing statements
MaxFailUuid == 3
\* where a failing statement fails: when session.run sends it (RUN), or when its
\* result is pulled
FailPhases == {"run", "pull"}
\* the rows hybrid_rrf_search hands to hybrid_rerank_search
MaxCandidates == 3
\* the top_k values of hybrid_rerank_search
RerankTopKs == {1, 2}
\* the values cross_encoder_model.predict gives a pair
CrossScores == {1, 2, 3}
\* the lengths of the result lists of the index queries
ListLengths == {0, 1, 2}
\* the project the runs with searches upsert and delete
SearchProjectIds == {101}
\* the two index queries of hybrid_rrf_search
Adapters == {"semantic", "bm25"}
\* the top_k values of the callers of hybrid_rrf_search
TopKs == {1, 3}
\* the rrf_k default of line 200
DefaultRrfK == 60

\* the items of the result lists the fusion is applied to on its own
MaxItems == 3
\* the rrf_k values the fusion is applied with
RrfKs == {0, 1, DefaultRrfK}

\* the sessions that can have an upsert statement in flight at once
Txs == {1, 2}
Names == {"n1"}
Questions == {"q1"}
Texts == {"s1", "s2"}

VARIABLES
    store,      \* the graph: nodes, their properties and the three relationships
    nextNode,   \* next unused node identity of the store
    nextUuid,   \* next value of uuid.uuid4()
    clock,      \* the statement clock behind datetime()
    createdFor, \* history: summary node -> the project_id whose upsert created it
    txs,        \* the upsert statements in flight: position and parameters of each
    search,     \* the locals of the hybrid_rrf_search call in progress or just done
    lastOp,     \* the tool call that ran last, with its arguments
    ret         \* what that call returned

vars == <<store, nextNode, nextUuid, clock, createdFor, txs, search, lastOp, ret>>

EmptyStore ==
    [proj |-> <<>>, summ |-> <<>>, latest |-> {}, hasSummary |-> {}, prev |-> {}]

\* the nodes with label Project / Summary
ProjectNodes(st) == DOMAIN st.proj
SummaryNodes(st) == DOMAIN st.summ

\* f without the keys in S
Without(f, S) == [x \in DOMAIN f \ S |-> f[x]]

\* the sequences that list every element of the finite set S exactly once
Orderings(S) ==
    {f \in [1..Cardinality(S) -> S] : \A i, j \in 1..Cardinality(S) : f[i] = f[j] => i = j}

(***************************************************************************)
(* upsert_project_tool, lines 39-85                                        *)
(***************************************************************************)
\* MERGE (p:Project) without the id: every Project node matches
MergeMatchAll(st, project_id) == ProjectNodes(st)

\* MERGE (p:Project {id: $project_id}): the nodes the pattern matches
MergeMatch(st, project_id) == {p \in ProjectNodes(st) : st.proj[p].id = project_id}

\* the same pattern with p not bound: the latest Summary of any Project
OptionalMatchRowsAnyProject(st, ps) ==
    LET olds == {e[2] : e \in {x \in st.latest : x[2] \in SummaryNodes(st)}}
    IN  {<<p, s>> : p \in ps, s \in IF olds = {} THEN {0} ELSE olds}

\* OPTIONAL MATCH (p)-[old_rel:HAS_LATEST_SUMMARY]->(old_s:Summary): one row per
\* match, and one row with old_s null (0) for a p without a match
OptionalMatchRows(st, ps) ==
    {<<p, s>> : p \in ps, s \in SummaryNodes(st) \cup {0}} \cap
    ({e \in st.latest : e[2] \in SummaryNodes(st)} \cup
     {<<p, 0>> : p \in {q \in ps : ~ \E e \in st.latest : e[1] = q /\ e[2] \in SummaryNodes(st)}})

\* DELETE old_rel (line 56): the HAS_LATEST_SUMMARY edges that are left
DeleteOldRelKeep(st, rows) == st.latest

DeleteOldRel(st, rows) == st.latest \ {r \in rows : r[2] # 0}

\* MERGE (s)-[:PREVIOUS_VERSION]->(old_s) for the rows whose old_s is not null
\* (lines 67-69): the edges the FOREACH adds
PreviousVersionEdgesReversed(rows, newOf) ==
    {<<r[2], newOf[r]>> : r \in {x \in rows : x[2] # 0}}

PreviousVersionEdges(rows, newOf) ==
    {<<newOf[r], r[2]>> : r \in {x \in rows : x[2] # 0}}

\* the PREVIOUS_VERSION edges of the store after a statement without the FOREACH
PreviousVersionSkipped(st, rows, newOf) == st.prev

\* the PREVIOUS_VERSION edges of the store after the statement
PreviousVersionRepointed(st, rows, newOf) ==
    {e \in st.prev : e[1] \notin {r[2] : r \in rows}} \cup PreviousVersionEdges(rows, newOf)

PreviousVersionAfter(st, rows, newOf) ==
    st.prev \cup PreviousVersionEdges(rows, newOf)

\* the HAS_SUMMARY edges of the store after the statement, had DELETE taken the
\* HAS_SUMMARY edge of old_s as well
HasSummaryOnlyLatest(st, rows, newOf) ==
    (st.hasSummary \ {r \in rows : r[2] # 0}) \cup {<<r[1], newOf[r]>> : r \in rows}

\* MERGE (p)-[:HAS_SUMMARY]->(s) (line 64): the HAS_SUMMARY edges of the store
\* after the statement
HasSummaryAfter(st, rows, newOf) ==
    st.hasSummary \cup {<<r[1], newOf[r]>> : r \in rows}

\* The statement of lines 48-72 applied to st.  bound: the Project nodes MERGE
\* matched ({} when it creates one); first: the first unused node identity; t: the
\* value of datetime().
UpsertApply(st, bound, first, project_id, name, question, summary, summary_id, t) ==
    LET created == IF bound = {} THEN {first} ELSE {}
        ps == bound \cup created
        base == IF bound = {} THEN first + 1 ELSE first
        props == [id |-> project_id, name |-> name, question |-> question, updated_at |-> t]
        proj1 == [p \in DOMAIN st.proj \cup created |->
                    IF p \in created THEN props
                    ELSE IF p \in ps
                         THEN [st.proj[p] EXCEPT !.name = name, !.question = question,
                                                 !.updated_at = t]
                         ELSE st.proj[p]]
        rows == OptionalMatchRows(st, ps)
        order == CHOOSE f \in Orderings(rows) : TRUE
        newOf == [r \in rows |-> base + (CHOOSE i \in DOMAIN order : order[i] = r) - 1]
        news == {newOf[r] : r \in rows}
        sprops == [id |-> summary_id, text |-> summary,
                   embedding |-> <<question, summary>>, created_at |-> t]
        summ1 == [s \in DOMAIN st.summ \cup news |->
                    IF s \in news THEN sprops ELSE st.summ[s]]
    IN  [store |-> [proj |-> proj1,
                    summ |-> summ1,
                    latest |-> DeleteOldRel(st, rows) \cup {<<r[1], newOf[r]>> : r \in rows},
                    hasSummary |-> HasSummaryAfter(st, rows, newOf),
                    prev |-> PreviousVersionAfter(st, rows, newOf)],
         news |-> news,
         next |-> base + Cardinality(rows),
         \* RETURN p.id, p.name, s.id: one record per row
         records |-> {[kind |-> "saved", project_id |-> project_id,
                       project_name |-> name, summary_id |-> summary_id] : r \in rows}]

\* Python's truthiness test of line 40 and the uuid4() calls of lines 41 and 45:
\* the project_id used, the summary_id, and the next unused uuid
UpsertIds(arg, u) ==
    IF arg = NoId THEN [project_id |-> u, summary_id |-> u + 1, next |-> u + 2]
    ELSE [project_id |-> arg, summary_id |-> u, next |-> u + 1]

\* project ids a caller can pass: its own, none, or one a previous call returned
KnownIds(st) == ProjectIds \cup {NoId} \cup {st.proj[p].id : p \in ProjectNodes(st)}

Upsert(arg, name, question, summary) ==
    LET ids == UpsertIds(arg, nextUuid)
        r == UpsertApply(store, MergeMatch(store, ids.project_id), nextNode,
                         ids.project_id, name, question, summary, ids.summary_id, clock + 1)
    IN  /\ ids.next <= MaxUuid + 1
        /\ store' = r.store
        /\ nextNode' = r.next
        /\ nextUuid' = ids.next
        /\ clock' = clock + 1
        /\ createdFor' = [s \in DOMAIN createdFor \cup r.news |->
                            IF s \in r.news THEN ids.project_id ELSE createdFor[s]]
        /\ lastOp' = [op |-> "upsert", project_id |-> ids.project_id, arg |-> arg,
                      summary |-> summary, question |-> question]
        \* result.single(): the first record of the result
        /\ \E rec \in r.records : ret' = rec
        /\ UNCHANGED <<txs, search>>

(***************************************************************************)
(* delete_project_tool, lines 287-295                                      *)
(***************************************************************************)
\* MATCH (p:Project {id: $project_id}) DETACH DELETE p
DeleteApply(st, project_id) ==
    LET ps == {p \in ProjectNodes(st) : st.proj[p].id = project_id}
    IN  [proj |-> Without(st.proj, ps),
         summ |-> st.summ,
         latest |-> {e \in st.latest : e[1] \notin ps},
         hasSummary |-> {e \in st.hasSummary : e[1] \notin ps},
         prev |-> st.prev]

\* line 295
DeleteReturnFound(st, project_id) ==
    {p \in ProjectNodes(st) : st.proj[p].id = project_id} # {}

DeleteReturn(st, project_id) == TRUE

Delete(project_id) ==
    /\ store' = DeleteApply(store, project_id)
    /\ lastOp' = [op |-> "delete", project_id |-> project_id]
    /\ ret' = [kind |-> "bool", value |-> DeleteReturn(store, project_id)]
    /\ UNCHANGED <<nextNode, nextUuid, clock, createdFor, txs, search>>

(***************************************************************************)
(* What a statement of another session reads.  Each tool runs its          *)
(* statement with session.run, an auto-commit transaction of its own: the  *)
(* writes of a statement that has not committed are not read.              *)
(***************************************************************************)
\* the Project nodes a statement in flight holds the write lock of
Locked(t) == UNION {t[x].bound : x \in {y \in Txs : t[y].pc = "locked"}}

\* the store with the uncommitted DELETE old_rel of the statements in flight
VisibleDirty(st, t) == [st EXCEPT !.latest = {e \in st.latest : e[1] \notin Locked(t)}]

Visible(st, t) == st

(***************************************************************************)
(* get_latest_summary_tool, lines 114-122                                  *)
(***************************************************************************)
\* the records of the MATCH ... RETURN of lines 116-117
LatestRecords(st, project_id) ==
    {[kind |-> "latest", project_id |-> st.proj[e[1]].id,
      project_name |-> st.proj[e[1]].question,
      latest_summary |-> st.summ[e[2]].text, summary_id |-> st.summ[e[2]].id] :
        e \in {x \in st.latest : /\ x[1] \in ProjectNodes(st)
                                 /\ x[2] \in SummaryNodes(st)
                                 /\ st.proj[x[1]].id = project_id}}

\* result.single() and line 122: the values the tool can return
GetLatestResults(st, project_id) ==
    IF LatestRecords(st, project_id) = {} THEN {[kind |-> "No project found."]}
    ELSE LatestRecords(st, project_id)

GetLatest(project_id) ==
    /\ lastOp' = [op |-> "get_latest", project_id |-> project_id,
                  had_latest |-> \E s \in DOMAIN createdFor : createdFor[s] = project_id]
    /\ \E rec \in GetLatestResults(Visible(store, txs), project_id) : ret' = rec
    /\ UNCHANGED <<store, nextNode, nextUuid, clock, createdFor, txs, search>>

(***************************************************************************)
(* get_project_node, lines 93-106                                          *)
(***************************************************************************)
ProjectNodeRecords(st, summary_id) ==
    {[kind |-> "project", project_id |-> st.proj[e[1]].id,
      project_name |-> st.proj[e[1]].name, question |-> st.proj[e[1]].question,
      updated_at |-> st.proj[e[1]].updated_at] :
        e \in {x \in st.hasSummary : /\ x[1] \in ProjectNodes(st)
                                     /\ x[2] \in SummaryNodes(st)
                                     /\ st.summ[x[2]].id = summary_id}}

GetProjectNodeResults(st, summary_id) ==
    IF ProjectNodeRecords(st, summary_id) = {} THEN {[kind |-> "None"]}
    ELSE ProjectNodeRecords(st, summary_id)

GetProjectNode(summary_id) ==
    /\ lastOp' = [op |-> "get_project_node", summary_id |-> summary_id]
    /\ \E rec \in GetProjectNodeResults(store, summary_id) : ret' = rec
    /\ UNCHANGED <<store, nextNode, nextUuid, clock, createdFor, txs, search>>

(***************************************************************************)
(* The server handling one tool call at a time.                            *)
(***************************************************************************)
Init ==
    /\ store = EmptyStore
    /\ nextNode = 1
    /\ nextUuid = 1
    /\ clock = 0
    /\ createdFor = <<>>
    /\ txs = [t \in Txs |-> [pc |-> "idle"]]
    /\ search = [pc |-> "idle"]
    /\ lastOp = [op |-> "start"]
    /\ ret = [kind |-> "none"]

Next ==
    \/ \E arg \in KnownIds(store), name \in Names, question \in Questions, summary \in Texts :
          Upsert(arg, name, question, summary)
    \/ \E project_id \in KnownIds(store) \ {NoId} : Delete(project_id)
    \/ \E project_id \in KnownIds(store) \ {NoId} : GetLatest(project_id)
    \/ \E summary_id \in 1..(nextUuid - 1) : GetProjectNode(summary_id)

Spec == Init /\ [][Next]_vars

(***************************************************************************)
(* Statements the store fails.  A failed auto-commit transaction is rolled *)
(* back by the store.  The driver raises the failure of the RUN message in *)
(* session.run and the failure of the execution where the result is        *)
(* consumed: result.single() at line 79 for the upsert; the delete never   *)
(* consumes its result, the exit of the with block (line 293) closes the   *)
(* session, which discards the result together with its failure.           *)
(***************************************************************************)
\* lines 74-79 with a statement that fails: the exception leaves the tool
UpsertFails(arg, name, question, summary, phase) ==
    LET ids == UpsertIds(arg, nextUuid)
    IN  /\ ids.next <= MaxFailUuid + 1
        /\ nextUuid' = ids.next
        /\ lastOp' = [op |-> "upsert_failed", project_id |-> ids.project_id, phase |-> phase]
        /\ ret' = [kind |-> "exception"]
        /\ UNCHANGED <<store, nextNode, clock, createdFor, txs, search>>

\* what delete_project_tool gives its caller when its statement fails
DeleteFailsReturn(phase) ==
    IF phase = "run" THEN [kind |-> "exception"] ELSE [kind |-> "bool", value |-> TRUE]

\* lines 293-295 with a statement that fails
DeleteFails(project_id, phase) ==
    /\ lastOp' = [op |-> "delete_failed", project_id |-> project_id, phase |-> phase]
    /\ ret' = DeleteFailsReturn(phase)
    /\ UNCHANGED <<store, nextNode, nextUuid, clock, createdFor, txs, search>>

FailNext ==
    \/ \E arg \in KnownIds(store), name \in Names, question \in Questions, summary \in Texts :
          /\ nextUuid <= MaxFailUuid
          /\ Upsert(arg, name, question, summary)
    \/ \E project_id \in KnownIds(store) \ {NoId} : Delete(project_id)
    \/ \E arg \in KnownIds(store), name \in Names, question \in Questions, summary \in Texts,
          phase \in FailPhases : UpsertFails(arg, name, question, summary, phase)
    \/ \E project_id \in KnownIds(store) \ {NoId}, phase \in FailPhases :
          DeleteFails(project_id, phase)

FailSpec == Init /\ [][FailNext]_vars

(***************************************************************************)
(* Several sessions at once (several server processes on one store): each  *)
(* upsert statement is a transaction that reads what is committed, takes   *)
(* the write lock of the Project nodes it sets properties of, and commits  *)
(* at its end.  Without a uniqueness constraint on Project.id, MERGE takes *)
(* no lock before it decides to create a node.                             *)
(***************************************************************************)
\* lines 40-45 and the start of the statement: uuid4(), the statement clock, and
\* MERGE (line 49) matching the committed Project nodes or deciding to create one
TxBegin(t, arg, name, question, summary) ==
    LET ids == UpsertIds(arg, nextUuid)
    IN  /\ txs[t].pc = "idle"
        /\ ids.next <= MaxConcUuid + 1
        /\ txs' = [txs EXCEPT ![t] =
                     [pc |-> "merged", arg |-> arg, project_id |-> ids.project_id,
                      name |-> name, question |-> question, summary |-> summary,
                      summary_id |-> ids.summary_id, time |-> clock + 1,
                      bound |-> MergeMatch(Visible(store, txs), ids.project_id)]]
        /\ nextUuid' = ids.next
        /\ clock' = clock + 1
        /\ UNCHANGED <<store, nextNode, createdFor, search, lastOp, ret>>

\* SET p.name ... (lines 50-52) takes the write lock of every matched node; a
\* node the statement creates is its own.  Then lines 55-56 run in the
\* transaction.
TxLock(t) ==
    /\ txs[t].pc = "merged"
    /\ txs[t].bound \cap Locked(txs) = {}
    /\ txs' = [txs EXCEPT ![t].pc = "locked"]
    /\ UNCHANGED <<store, nextNode, nextUuid, clock, createdFor, search, lastOp, ret>>

\* lines 58-71, the commit at the end of session.run, and lines 84-85
TxCommit(t) ==
    LET x == txs[t]
        r == UpsertApply(store, x.bound, nextNode, x.project_id, x.name, x.question,
                         x.summary, x.summary_id, x.time)
    IN  /\ x.pc = "locked"
        /\ store' = r.store
        /\ nextNode' = r.next
        /\ createdFor' = [s \in DOMAIN createdFor \cup r.news |->
                            IF s \in r.news THEN x.project_id ELSE createdFor[s]]
        /\ txs' = [txs EXCEPT ![t] = [pc |-> "idle"]]
        /\ lastOp' = [op |-> "upsert", project_id |-> x.project_id, arg |-> x.arg,
                      summary |-> x.summary, question |-> x.question]
        /\ \E rec \in r.records : ret' = rec
        /\ UNCHANGED <<nextUuid, clock, search>>

ConcNext ==
    \/ \E t \in Txs, arg \in KnownIds(store), name \in Names, question \in Questions,
          summary \in Texts : TxBegin(t, arg, name, question, summary)
    \/ \E t \in Txs : TxLock(t)
    \/ \E t \in Txs : TxCommit(t)
    \/ \E project_id \in KnownIds(store) \ {NoId} : GetLatest(project_id)

ConcSpec == Init /\ [][ConcNext]_vars

(***************************************************************************)
(* hybrid_rrf_search, lines 200-237, with the two index queries (lines     *)
(* 127-145 and 170-195) and get_data_tool (lines 151-165).                 *)
(***************************************************************************)
Min(a, b) == IF a < b THEN a ELSE b
Range(f) == {f[i] : i \in DOMAIN f}

\* What an index query can yield: distinct Summary nodes, best first, at most
\* `limit` of them.  Which nodes and in which order is decided by the embedding
\* model and the full-text index.
ResultLists(st, limit) ==
    UNION {{f \in [1..n -> SummaryNodes(st)] : \A i, j \in 1..n : f[i] = f[j] => i = j} :
             n \in {m \in ListLengths : m <= limit}}

\* RETURN node.id AS node_id (lines 136 and 181)
NodeIds(st, list) == [i \in DOMAIN list |-> st.summ[list[i]].id]

\* get_semantic_matches(query_text, top_k, 0.0)
SemanticMatches(st, top_k) == {NodeIds(st, l) : l \in ResultLists(st, top_k)}

\* get_bm25_matches(query_text, top_k, 0.0)
Bm25Matches(st, top_k) == {NodeIds(st, l) : l \in ResultLists(st, top_k)}

\* 1 / (rrf_k + rank) and the sums of such terms, as exact fractions <<n, d>>
FracAdd(a, b) == <<a[1] * b[2] + b[1] * a[2], a[2] * b[2]>>
FracGreater(a, b) == a[1] * b[2] > b[1] * a[2]
FracEqual(a, b) == a[1] * b[2] = b[1] * a[2]

\* the term a list adds for the item at `rank`
RankTermZeroBased(rrf_k, rank) == <<1, rrf_k + rank - 1>>

RankTerm(rrf_k, rank) == <<1, rrf_k + rank>>

\* One loop of lines 219-222 / 224-227 from position `rank` on.  d is the dict
\* rrf_scores: its keys in insertion order, and the score of each key.
RECURSIVE AddRanks(_, _, _, _)
AddRanks(d, results, rank, rrf_k) ==
    IF rank > Len(results) THEN d
    ELSE LET node_id == results[rank]
             old == IF node_id \in DOMAIN d.score THEN d.score[node_id] ELSE <<0, 1>>
         IN  AddRanks([keys |-> IF node_id \in DOMAIN d.score THEN d.keys
                                ELSE Append(d.keys, node_id),
                       score |-> [x \in DOMAIN d.score \cup {node_id} |->
                                    IF x = node_id THEN FracAdd(old, RankTerm(rrf_k, rank))
                                    ELSE d.score[x]]],
                      results, rank + 1, rrf_k)

\* lines 217-227
RrfScores(semantic_results, bm25_results, rrf_k) ==
    AddRanks(AddRanks([keys |-> <<>>, score |-> <<>>], semantic_results, 1, rrf_k),
             bm25_results, 1, rrf_k)

\* lines 229-233: sorted(..., reverse=True) is stable, equal scores keep the
\* insertion order of the dict
RankedIds(d) ==
    LET n == Len(d.keys)
        pos(i) == 1 + Cardinality({j \in 1..n : FracGreater(d.score[d.keys[j]], d.score[d.keys[i]])})
                    + Cardinality({j \in 1..(i - 1) : FracEqual(d.score[d.keys[j]], d.score[d.keys[i]])})
    IN  [p \in 1..n |-> d.keys[CHOOSE i \in 1..n : pos(i) = p]]

\* line 235: ranked_ids[:top_k]
TopRankedAll(ranked_ids, top_k) == ranked_ids

TopRanked(ranked_ids, top_k) == SubSeq(ranked_ids, 1, Min(top_k, Len(ranked_ids)))

\* the ids of the Summary nodes that a Project has a HAS_SUMMARY edge to, the
\* pattern of line 159; a search records whether all the ids it retrieved were
\* among them at its index queries
OwnedIds(st) ==
    {st.summ[e[2]].id : e \in {x \in st.hasSummary : /\ x[1] \in ProjectNodes(st)
                                                     /\ x[2] \in SummaryNodes(st)}}

\* the WHERE n.id IN $node_ids of line 160 left out
DataRowsAll(st, node_ids) ==
    {e \in st.hasSummary : e[1] \in ProjectNodes(st) /\ e[2] \in SummaryNodes(st)}

\* the rows of the MATCH of lines 159-160: a Project, a HAS_SUMMARY edge, and a
\* node whose id is in node_ids
DataRows(st, node_ids) ==
    {e \in st.hasSummary : /\ e[1] \in ProjectNodes(st)
                           /\ e[2] \in SummaryNodes(st)
                           /\ st.summ[e[2]].id \in Range(node_ids)}

\* line 161: RETURN p.id AS id, p.question AS question, n.text AS summary
DataRecord(st, e) ==
    [id |-> st.proj[e[1]].id, question |-> st.proj[e[1]].question,
     summary |-> st.summ[e[2]].text]

\* get_data_tool: the row sequences it can return.  The statement has no ORDER BY:
\* the rows come in the order the store finds them.
GetData(st, node_ids) ==
    IF node_ids = <<>> THEN {<<>>} ELSE Orderings(DataRows(st, node_ids))

\* lines 204-215: the two index queries, each in a session of its own
Retrieve(top_k, rrf_k, semantic_results, bm25_results) ==
    /\ search.pc = "idle"
    /\ search' = [pc |-> "retrieved", top_k |-> top_k, rrf_k |-> rrf_k,
                  semantic_results |-> semantic_results, bm25_results |-> bm25_results,
                  owned |-> (Range(semantic_results) \cup Range(bm25_results))
                              \subseteq OwnedIds(Visible(store, txs)),
                  failed |-> "none"]
    /\ UNCHANGED <<store, nextNode, nextUuid, clock, createdFor, txs, lastOp, ret>>

\* lines 216-237: the fusion and get_data_tool, in a later session
Hydrate ==
    /\ search.pc = "retrieved"
    /\ LET d == RrfScores(search.semantic_results, search.bm25_results, search.rrf_k)
           top_ranked_ids == TopRanked(RankedIds(d), search.top_k)
           st == Visible(store, txs)
       IN  \E rows \in GetData(st, top_ranked_ids) :
              /\ search' = [pc |-> "done", top_k |-> search.top_k, rrf_k |-> search.rrf_k,
                            semantic_results |-> search.semantic_results,
                            bm25_results |-> search.bm25_results,
                            owned |-> search.owned, failed |-> search.failed,
                            top_ranked_ids |-> top_ranked_ids,
                            rows |-> [i \in DOMAIN rows |-> st.summ[rows[i][2]].id],
                            returned |-> [i \in DOMAIN rows |-> DataRecord(st, rows[i])]]
    /\ UNCHANGED <<store, nextNode, nextUuid, clock, createdFor, txs, lastOp, ret>>

\* an index query that fails and a caller that goes on with an empty list in
\* its place
OnAdapterFailureProceed(top_k, rrf_k, adapter, semantic_results, owned) ==
    [pc |-> "retrieved", top_k |-> top_k, rrf_k |-> rrf_k,
     semantic_results |-> semantic_results, bm25_results |-> <<>>,
     owned |-> owned, failed |-> adapter]

\* lines 205-215: neither call is inside a try, the exception of a failing index
\* query leaves hybrid_rrf_search at that call
OnAdapterFailure(top_k, rrf_k, adapter, semantic_results, owned) ==
    [pc |-> "raised", top_k |-> top_k, rrf_k |-> rrf_k,
     semantic_results |-> semantic_results, failed |-> adapter]

\* lines 204-215 with an index query that fails: get_semantic_matches (nothing
\* retrieved yet), or get_bm25_matches after the semantic list was retrieved
AdapterFails(top_k, rrf_k, adapter, semantic_results) ==
    /\ search.pc = "idle"
    /\ adapter = "semantic" => semantic_results = <<>>
    /\ search' = OnAdapterFailure(top_k, rrf_k, adapter, semantic_results,
                                  Range(semantic_results) \subseteq
                                      OwnedIds(Visible(store, txs)))
    /\ UNCHANGED <<store, nextNode, nextUuid, clock, createdFor, txs, lastOp, ret>>

\* the call has returned to its caller, with its rows or with the exception,
\* and its locals are gone
SearchReturn ==
    /\ search.pc \in {"done", "raised"}
    /\ search' = [pc |-> "idle"]
    /\ UNCHANGED <<store, nextNode, nextUuid, clock, createdFor, txs, lastOp, ret>>

\* Upserts and deletes of other callers go on between the index queries and the
\* hydration of a search.
SearchNext ==
    \/ \E arg \in SearchProjectIds, name \in Names, question \in Questions :
          /\ search.pc # "done"
          /\ nextUuid <= MaxSearchUuid
          /\ Upsert(arg, name, question, "s1")
    \/ \E project_id \in SearchProjectIds : search.pc # "done" /\ Delete(project_id)
    \/ \E top_k \in TopKs :
          \E semantic_results \in SemanticMatches(Visible(store, txs), top_k * 2),
             bm25_results \in Bm25Matches(Visible(store, txs), top_k * 2) :
              Retrieve(top_k, DefaultRrfK, semantic_results, bm25_results)
    \/ Hydrate
    \/ SearchReturn

SearchSpec == Init /\ [][SearchNext]_vars

\* The same with two projects and fewer Summaries: a delete of one project goes
\* between the index queries and the hydration of a search that also found a
\* Summary of the other project.
HydrateNext ==
    \/ \E arg \in ProjectIds, name \in Names, question \in Questions :
          /\ search.pc # "done"
          /\ nextUuid <= MaxHydrateUuid
          /\ Upsert(arg, name, question, "s1")
    \/ \E project_id \in ProjectIds : search.pc # "done" /\ Delete(project_id)
    \/ \E top_k \in TopKs :
          \E semantic_results \in SemanticMatches(Visible(store, txs), top_k * 2),
             bm25_results \in Bm25Matches(Visible(store, txs), top_k * 2) :
              Retrieve(top_k, DefaultRrfK, semantic_results, bm25_results)
    \/ \E top_k \in TopKs, adapter \in Adapters :
          \E semantic_results \in SemanticMatches(Visible(store, txs), top_k * 2) :
              AdapterFails(top_k, DefaultRrfK, adapter, semantic_results)
    \/ Hydrate
    \/ SearchReturn

HydrateSpec == Init /\ [][HydrateNext]_vars

(***************************************************************************)
(* The fusion of lines 216-235 on its own: any two result lists of         *)
(* distinct node ids, any top_k and rrf_k.                                 *)
(***************************************************************************)
FuseItems == 1..MaxItems

\* the lists of distinct items
FuseLists ==
    UNION {{f \in [1..n -> FuseItems] : \A i, j \in 1..n : f[i] = f[j] => i = j} :
             n \in 0..MaxItems}

FuseInit ==
    /\ store = EmptyStore
    /\ nextNode = 1
    /\ nextUuid = 1
    /\ clock = 0
    /\ createdFor = <<>>
    /\ txs = [t \in Txs |-> [pc |-> "idle"]]
    /\ lastOp = [op |-> "start"]
    /\ ret = [kind |-> "none"]
    /\ \E top_k \in TopKs, rrf_k \in RrfKs, semantic_results \in FuseLists,
          bm25_results \in FuseLists :
          search = [pc |-> "retrieved", top_k |-> top_k, rrf_k |-> rrf_k,
                    semantic_results |-> semantic_results, bm25_results |-> bm25_results]

\* lines 216-235
Fuse ==
    /\ search.pc = "retrieved"
    /\ LET d == RrfScores(search.semantic_results, search.bm25_results, search.rrf_k)
       IN  search' = [pc |-> "fused", top_k |-> search.top_k, rrf_k |-> search.rrf_k,
                      semantic_results |-> search.semantic_results,
                      bm25_results |-> search.bm25_results,
                      rrf_scores |-> d,
                      ranked_ids |-> RankedIds(d),
                      top_ranked_ids |-> TopRanked(RankedIds(d), search.top_k)]
    /\ UNCHANGED <<store, nextNode, nextUuid, clock, createdFor, txs, lastOp, ret>>

FuseNext == Fuse

FuseSpec == FuseInit /\ [][FuseNext]_vars

(***************************************************************************)
(* hybrid_rerank_search, lines 245-279, from the moment hybrid_rrf_search  *)
(* has returned its rows.                                                  *)
(***************************************************************************)
\* the rows get_data_tool can return (line 161), at most top_k * 3 of them
CandidateLists(top_k) ==
    UNION {[1..n -> {[id |-> 101, question |-> q, summary |-> t] :
                        q \in Questions, t \in Texts}] :
             n \in 0..Min(MaxCandidates, top_k * 3)}

\* lines 272-276 without reverse=True
RerankOrderAscending(scores) ==
    LET n == Len(scores)
        pos(i) == 1 + Cardinality({j \in 1..n : scores[j] < scores[i]})
                    + Cardinality({j \in 1..(i - 1) : scores[j] = scores[i]})
    IN  [p \in 1..n |-> CHOOSE i \in 1..n : pos(i) = p]

\* lines 272-276: the positions of the candidates in the order of
\* sorted(candidates, key=cross_score, reverse=True), a stable sort
RerankOrder(scores) ==
    LET n == Len(scores)
        pos(i) == 1 + Cardinality({j \in 1..n : scores[j] > scores[i]})
                    + Cardinality({j \in 1..(i - 1) : scores[j] = scores[i]})
    IN  [p \in 1..n |-> CHOOSE i \in 1..n : pos(i) = p]

RerankInit ==
    /\ store = EmptyStore
    /\ nextNode = 1
    /\ nextUuid = 1
    /\ clock = 0
    /\ createdFor = <<>>
    /\ txs = [t \in Txs |-> [pc |-> "idle"]]
    /\ lastOp = [op |-> "start"]
    /\ ret = [kind |-> "none"]
    /\ \E top_k \in RerankTopKs :
          \E candidates \in CandidateLists(top_k) :
              search = [pc |-> "candidates", top_k |-> top_k, candidates |-> candidates,
                        predict_calls |-> 0]

\* lines 258-259: if not candidates: return []
RerankEmpty ==
    /\ search.pc = "candidates"
    /\ search.candidates = <<>>
    /\ search' = [pc |-> "returned", top_k |-> search.top_k,
                  candidates |-> search.candidates,
                  predict_calls |-> search.predict_calls,
                  scores |-> <<>>, order |-> <<>>, returned |-> <<>>]
    /\ UNCHANGED <<store, nextNode, nextUuid, clock, createdFor, txs, lastOp, ret>>

\* lines 262-265: one predict call, one score for each pair
Predict(scores) ==
    /\ search.pc = "candidates"
    /\ search.candidates # <<>>
    /\ search' = [pc |-> "scored", top_k |-> search.top_k,
                  candidates |-> search.candidates,
                  predict_calls |-> search.predict_calls + 1,
                  scores |-> scores]
    /\ UNCHANGED <<store, nextNode, nextUuid, clock, createdFor, txs, lastOp, ret>>

\* lines 268-279: cross_score set on each candidate, the sort, and [:top_k]
RerankReturn ==
    /\ search.pc = "scored"
    /\ LET reranked == RerankOrder(search.scores)
           order == SubSeq(reranked, 1, Min(search.top_k, Len(reranked)))
       IN  search' = [pc |-> "returned", top_k |-> search.top_k,
                      candidates |-> search.candidates,
                      predict_calls |-> search.predict_calls,
                      scores |-> search.scores,
                      order |-> order,
                      returned |-> [i \in DOMAIN order |->
                                      [id |-> search.candidates[order[i]].id,
                                       question |-> search.candidates[order[i]].question,
                                       summary |-> search.candidates[order[i]].summary,
                                       cross_score |-> search.scores[order[i]]]]]
    /\ UNCHANGED <<store, nextNode, nextUuid, clock, createdFor, txs, lastOp, ret>>

RerankNext ==
    \/ RerankEmpty
    \/ \E scores \in [DOMAIN search.candidates -> CrossScores] : Predict(scores)
    \/ RerankReturn

RerankSpec == RerankInit /\ [][RerankNext]_vars

(***************************************************************************)
(* Claims about the version chain, checked under Spec.                     *)
(***************************************************************************)
\* the HAS_LATEST_SUMMARY edges of the Project nodes with this id
LatestEdgesOf(st, project_id) ==
    {e \in st.latest : e[1] \in ProjectNodes(st) /\ st.proj[e[1]].id = project_id}

\* C1: after every upsert_project_tool call, the project it was applied to has
\* exactly one HAS_LATEST_SUMMARY edge, and that edge ends at a Summary.
C1_ExactlyOneLatest ==
    lastOp.op = "upsert" =>
        /\ Cardinality(MergeMatch(store, lastOp.project_id)) = 1
        /\ Cardinality(LatestEdgesOf(store, lastOp.project_id)) = 1
        /\ \A e \in LatestEdgesOf(store, lastOp.project_id) : e[2] \in SummaryNodes(store)

\* an upsert has just run on a project that already had two earlier versions
C1_Witness ==
    /\ lastOp.op = "upsert"
    /\ \E p \in MergeMatch(store, lastOp.project_id) :
          Cardinality({e \in store.hasSummary : e[1] = p}) >= 3

\* C2: an upsert on a project whose latest Summary is S creates one Summary S2
\* with a PREVIOUS_VERSION edge S2 -> S and no other new edge of that type (none
\* at all when there was no latest Summary), and get_latest_summary_tool then
\* returns the id and the text of S2, which is not the id of S.
C2_PredecessorAndLatest ==
    [][lastOp'.op = "upsert" =>
        LET P == lastOp'.project_id
            olds == {e[2] : e \in LatestEdgesOf(store, P)}
            news == SummaryNodes(store') \ SummaryNodes(store)
        IN  /\ Cardinality(news) = 1
            /\ store'.prev \ store.prev = {<<n, o>> : n \in news, o \in olds}
            /\ \A n \in news : store'.summ[n].id = ret'.summary_id
            /\ \A o \in olds : store.summ[o].id # ret'.summary_id
            /\ GetLatestResults(store', P) =
                  {[kind |-> "latest", project_id |-> P, project_name |-> lastOp'.question,
                    latest_summary |-> lastOp'.summary, summary_id |-> ret'.summary_id]}
    ]_vars

\* an upsert has just linked its new Summary to the Summary it superseded
C2_Witness ==
    /\ lastOp.op = "upsert"
    /\ \E e \in store.prev : store.summ[e[1]].id = ret.summary_id

\* C3: an upsert removes no PREVIOUS_VERSION edge of the store, of its own project
\* or of another one.
C3_PredecessorLinksOnlyGrow ==
    [][lastOp'.op = "upsert" => store.prev \subseteq store'.prev]_vars

\* an upsert that added a PREVIOUS_VERSION edge has run on a store that already
\* held such an edge of another project
C3_Witness ==
    /\ lastOp.op = "upsert"
    /\ \E e \in store.prev : store.summ[e[1]].id = ret.summary_id
    /\ \E e \in store.prev : createdFor[e[1]] # lastOp.project_id

\* the Project nodes with a HAS_SUMMARY edge to the Summary node s
OwnersOf(st, s) == {e[1] : e \in {x \in st.hasSummary : x[2] = s /\ x[1] \in ProjectNodes(st)}}

\* C15: in every state, the two Summaries of a PREVIOUS_VERSION edge were created
\* by upserts on the same project_id, and they have the HAS_SUMMARY edge of the
\* same Project node, which has that id, or both of none once it was deleted.
C15_NoCrossProjectLink ==
    \A e \in store.prev :
        /\ e[1] \in SummaryNodes(store) /\ e[2] \in SummaryNodes(store)
        /\ createdFor[e[1]] = createdFor[e[2]]
        /\ OwnersOf(store, e[1]) = OwnersOf(store, e[2])
        /\ \A p \in OwnersOf(store, e[1]) : store.proj[p].id = createdFor[e[1]]

\* the store holds the chain of a project that exists next to the chain a
\* deleted project with another id left behind
C15_Witness ==
    \E a, b \in store.prev :
        /\ createdFor[a[1]] # createdFor[b[1]]
        /\ OwnersOf(store, a[1]) # {}
        /\ OwnersOf(store, b[1]) = {}
        /\ MergeMatch(store, createdFor[b[1]]) = {}

\* C4: after delete_project_tool(P), no Project node with id P, no Summary created
\* by an upsert on P and no relationship touching them is left.
C4_DeleteRemovesSummaries ==
    lastOp.op = "delete" =>
        LET P == lastOp.project_id
            mine == {s \in DOMAIN createdFor : createdFor[s] = P}
        IN  /\ MergeMatch(store, P) = {}
            /\ mine \cap SummaryNodes(store) = {}
            /\ \A e \in store.latest \cup store.hasSummary \cup store.prev :
                  e[1] \notin mine /\ e[2] \notin mine

\* C5: delete_project_tool returns True; with an id that matches no Project it
\* leaves the store as it is; and a second call right after the first changes
\* nothing more.
C5_DeleteIdempotent ==
    /\ \A P \in KnownIds(store) \ {NoId} :
          LET once == DeleteApply(store, P)
          IN  /\ DeleteReturn(store, P) = TRUE
              /\ MergeMatch(store, P) = {} => once = store
              /\ DeleteApply(once, P) = once
              /\ DeleteReturn(once, P) = TRUE
    /\ lastOp.op = "delete" =>
          /\ ret.value = TRUE
          /\ DeleteApply(store, lastOp.project_id) = store

\* delete_project_tool has just run on an id whose project had been created before
C5_Witness ==
    /\ lastOp.op = "delete"
    /\ ret.value = TRUE
    /\ MergeMatch(store, lastOp.project_id) = {}
    /\ \E s \in DOMAIN createdFor : createdFor[s] = lastOp.project_id

\* what the store holds of the Project node q: its properties, its edges, the
\* Summary nodes at the end of its HAS_SUMMARY edges and the PREVIOUS_VERSION
\* edges that touch them
ProjectView(st, q) ==
    LET mine == {e[2] : e \in {x \in st.hasSummary : x[1] = q}}
    IN  [props |-> st.proj[q],
         latest |-> {e \in st.latest : e[1] = q},
         hasSummary |-> {e \in st.hasSummary : e[1] = q},
         summaries |-> [s \in mine \cap SummaryNodes(st) |-> st.summ[s]],
         prev |-> {e \in st.prev : e[1] \in mine \/ e[2] \in mine}]

\* C18: an upsert_project_tool call on project P, with the id supplied or
\* generated by the call, leaves every Project node with another id in the
\* store with the same name, question, updated_at, HAS_LATEST_SUMMARY and
\* HAS_SUMMARY edges, Summaries and PREVIOUS_VERSION edges.
C18_OtherProjectsUnchanged ==
    [][lastOp'.op = "upsert" =>
          \A q \in {x \in ProjectNodes(store) : store.proj[x].id # lastOp'.project_id} :
              /\ q \in ProjectNodes(store')
              /\ ProjectView(store', q) = ProjectView(store, q)]_vars

\* an upsert with a generated id has run next to a project that has two
\* versions and was last updated earlier
C18_Witness ==
    /\ lastOp.op = "upsert"
    /\ lastOp.arg = NoId
    /\ \E q \in ProjectNodes(store) :
          /\ store.proj[q].id # lastOp.project_id
          /\ ProjectView(store, q).prev # {}
          /\ store.proj[q].updated_at < clock

\* C19: an upsert removes the HAS_LATEST_SUMMARY edge of the Summary it
\* supersedes and nothing else: every Summary node keeps its id and text, every
\* HAS_SUMMARY edge stays, and every summary id that get_project_node resolved
\* to a project before the upsert resolves to the same project after it, as
\* does the id of the new Summary; and get_project_node returns the project
\* that created the Summary for every Summary that still has its HAS_SUMMARY
\* edge, latest or not.
C19_SupersededStillResolves ==
    [][/\ lastOp'.op = "upsert" =>
            LET P == lastOp'.project_id
            IN  /\ store.latest \ store'.latest = LatestEdgesOf(store, P)
                /\ store.hasSummary \subseteq store'.hasSummary
                /\ \A s \in SummaryNodes(store) :
                      s \in SummaryNodes(store') /\ store'.summ[s] = store.summ[s]
                /\ \A sid \in 1..(nextUuid' - 1) :
                      \A rec \in GetProjectNodeResults(store, sid) :
                          rec.kind = "project" =>
                              /\ GetProjectNodeResults(store', sid) # {}
                              /\ \A rec2 \in GetProjectNodeResults(store', sid) :
                                    /\ rec2.kind = "project"
                                    /\ rec2.project_id = rec.project_id
                /\ \A rec \in GetProjectNodeResults(store', ret'.summary_id) :
                      rec.kind = "project" /\ rec.project_id = P
       /\ lastOp'.op = "get_project_node" =>
            \A s \in SummaryNodes(store') :
                (store'.summ[s].id = lastOp'.summary_id /\ OwnersOf(store', s) # {}) =>
                    /\ ret'.kind = "project"
                    /\ ret'.project_id = createdFor'[s]]_vars

\* get_project_node has returned the project for a Summary that two later
\* upserts on the project have superseded
C19_Witness ==
    /\ lastOp.op = "get_project_node"
    /\ ret.kind = "project"
    /\ \E s \in SummaryNodes(store) :
          /\ store.summ[s].id = lastOp.summary_id
          /\ \E a, b \in store.prev : a[2] = s /\ b[2] = a[1]
          /\ ~ \E e \in store.latest : e[2] = s

\* the Summary nodes met from s on by following PREVIOUS_VERSION edges, at most n
\* of them, s first
RECURSIVE ChainFrom(_, _, _)
ChainFrom(st, s, n) ==
    IF n = 0 THEN <<>>
    ELSE LET nexts == {e[2] : e \in {x \in st.prev : x[1] = s}}
         IN  IF nexts = {} THEN <<s>>
             ELSE <<s>> \o ChainFrom(st, CHOOSE t \in nexts : TRUE, n - 1)

\* C20: in every state of a run of upserts and deletes made one at a time, each
\* Project node has one latest Summary, and the PREVIOUS_VERSION edges followed
\* from it list the Summaries with the project's HAS_SUMMARY edge, each once,
\* from the newest to the oldest, and no other Summary (none that an earlier
\* project with the same id left behind); no Summary has two predecessors or
\* two successors, and every edge leads to an older Summary.
C20_HistoryIsOneChain ==
    /\ \A s \in SummaryNodes(store) :
          /\ Cardinality({e \in store.prev : e[1] = s}) <= 1
          /\ Cardinality({e \in store.prev : e[2] = s}) <= 1
    /\ \A e \in store.prev : store.summ[e[1]].created_at > store.summ[e[2]].created_at
    /\ \A p \in ProjectNodes(store) :
          LET mine == {e[2] : e \in {x \in store.hasSummary : x[1] = p}}
              tops == {e[2] : e \in {x \in store.latest : x[1] = p}}
          IN  /\ Cardinality(tops) = 1
              /\ \A top \in tops :
                    LET chain == ChainFrom(store, top, Cardinality(SummaryNodes(store)) + 1)
                    IN  /\ Range(chain) = mine
                        /\ Len(chain) = Cardinality(mine)
                        /\ \A i, j \in DOMAIN chain :
                              i < j => store.summ[chain[i]].created_at
                                         > store.summ[chain[j]].created_at

\* a project that was deleted and created again under the same id has a chain
\* of two Summaries, next to a Summary of the deleted project
C20_Witness ==
    \E p \in ProjectNodes(store) :
        /\ Cardinality({e \in store.hasSummary : e[1] = p}) >= 2
        /\ \E s \in SummaryNodes(store) :
              /\ createdFor[s] = store.proj[p].id
              /\ OwnersOf(store, s) = {}

(***************************************************************************)
(* Claims about failing statements, checked under FailSpec.                *)
(***************************************************************************)
\* C16: an upsert_project_tool or delete_project_tool call whose statement the
\* store fails ends with an exception, not with a result, and leaves the store as
\* it was before the call.
C16_FailedWriteReportsFailure ==
    [][lastOp'.op \in {"upsert_failed", "delete_failed"} =>
          /\ ret'.kind = "exception"
          /\ store' = store]_vars

(***************************************************************************)
(* Claims about concurrent sessions, checked under ConcSpec.               *)
(***************************************************************************)
\* C6: whatever the interleaving of the upserts on one project_id, the store
\* never holds two Project nodes with that id nor two HAS_LATEST_SUMMARY edges
\* for it, and a project that exists has one.
C6_OneProjectOneLatest ==
    \A P \in KnownIds(store) \ {NoId} :
        /\ Cardinality(MergeMatch(store, P)) <= 1
        /\ Cardinality(LatestEdgesOf(store, P)) <= 1
        /\ MergeMatch(store, P) # {} => Cardinality(LatestEdgesOf(store, P)) = 1

C14_UpdatedAtNeverDecreases ==
    [][\A p \in ProjectNodes(store) \cap ProjectNodes(store') :
          store'.proj[p].updated_at >= store.proj[p].updated_at]_vars

(***************************************************************************)
(* Claims about hybrid_rrf_search, checked under SearchSpec, HydrateSpec   *)
(* and FuseSpec.                                                           *)
(***************************************************************************)
\* the 1-based rank of x in a list it is in
RankIn(list, x) == CHOOSE i \in DOMAIN list : list[i] = x

\* the accumulated RRF score of x: the sum of 1/(rrf_k + rank) over the lists
\* that hold x
ClaimScore(x, semantic_results, bm25_results, rrf_k) ==
    LET term(list) == IF x \in Range(list) THEN <<1, rrf_k + RankIn(list, x)>> ELSE <<0, 1>>
    IN  FracAdd(term(semantic_results), term(bm25_results))

\* where x is first seen when the lists are read in the order the code reads them
FirstSeen(x, semantic_results, bm25_results) ==
    RankIn(semantic_results \o bm25_results, x)

\* a sequence of node ids is in descending score order, ties in first-seen order
InRrfOrder(ids, semantic_results, bm25_results, rrf_k) ==
    \A i, j \in DOMAIN ids :
        i < j =>
            LET a == ClaimScore(ids[i], semantic_results, bm25_results, rrf_k)
                b == ClaimScore(ids[j], semantic_results, bm25_results, rrf_k)
            IN  \/ FracGreater(a, b)
                \/ /\ FracEqual(a, b)
                   /\ FirstSeen(ids[i], semantic_results, bm25_results)
                        < FirstSeen(ids[j], semantic_results, bm25_results)

\* C8: the sequence hybrid_rrf_search returns is in descending order of the
\* accumulated RRF score, ties in first-seen order; for the lexical list [a, b],
\* the vector list [b, c] and rrf_k = 60 it is b, a, c.
C8_ReturnedInRrfOrder ==
    search.pc = "done" =>
        /\ InRrfOrder(search.rows, search.semantic_results, search.bm25_results, search.rrf_k)
        /\ (/\ Len(search.bm25_results) = 2
            /\ Len(search.semantic_results) = 2
            /\ search.bm25_results[2] = search.semantic_results[1]
            /\ search.bm25_results[1] # search.semantic_results[2]
            /\ search.rrf_k = 60
            /\ Len(search.rows) = 3)
           => search.rows = <<search.bm25_results[2], search.bm25_results[1],
                              search.semantic_results[2]>>

C10_FirstInBothScoresHigher ==
    search.pc = "fused" =>
        LET sem == search.semantic_results
            bm == search.bm25_results
            both == <<2, search.rrf_k + 1>>
            first(list, x) == Len(list) >= 1 /\ list[1] = x
        IN  \A x \in DOMAIN search.rrf_scores.score :
                /\ (first(sem, x) /\ first(bm, x)) =>
                       FracEqual(search.rrf_scores.score[x], both)
                /\ (first(sem, x) # first(bm, x)) =>
                       FracGreater(both, search.rrf_scores.score[x])

\* the fusion has run with rrf_k = 0 on two lists with the same first item, and
\* another item at rank 2 of both
C10_Witness ==
    /\ search.pc = "fused"
    /\ search.rrf_k = 0
    /\ Len(search.semantic_results) >= 2
    /\ Len(search.bm25_results) >= 2
    /\ search.semantic_results[1] = search.bm25_results[1]
    /\ search.semantic_results[2] = search.bm25_results[2]

\* C11: the ids hybrid_rrf_search keeps for its output are the same when the two
\* result lists are accumulated in the other order, the BM25 list first.
C11_AccumulationOrderIrrelevant ==
    search.pc = "fused" =>
        search.top_ranked_ids =
            TopRanked(RankedIds(RrfScores(search.bm25_results, search.semantic_results,
                                          search.rrf_k)),
                      search.top_k)

C13_RerankSortedTruncated ==
    search.pc = "returned" =>
        LET n == Len(search.candidates)
            order == search.order
        IN  /\ Len(search.returned) = Min(search.top_k, n)
            /\ Len(order) = Len(search.returned)
            /\ \A i \in DOMAIN order : order[i] \in 1..n
            /\ \A i, j \in DOMAIN order : order[i] = order[j] => i = j
            /\ \A i \in DOMAIN order :
                  /\ search.returned[i].summary = search.candidates[order[i]].summary
                  /\ search.returned[i].id = search.candidates[order[i]].id
                  /\ search.returned[i].cross_score = search.scores[order[i]]
            /\ \A i, j \in DOMAIN order :
                  i < j => search.returned[i].cross_score >= search.returned[j].cross_score
            /\ \A c \in (1..n) \ Range(order) :
                  \A i \in DOMAIN order : search.scores[c] <= search.returned[i].cross_score
            /\ n = 0 => (search.returned = <<>> /\ search.predict_calls = 0)
            /\ n > 0 => search.predict_calls = 1

\* a call with top_k = 2 has returned two of three candidates, the candidate
\* left out being the first of the fused list and the best one the last
C13_Witness ==
    /\ search.pc = "returned"
    /\ search.top_k = 2
    /\ Len(search.candidates) = 3
    /\ search.order = <<3, 2>>
    /\ search.scores[3] > search.scores[2]
    /\ search.scores[2] > search.scores[1]

\* a call whose hybrid_rrf_search found nothing has returned
C13_WitnessEmpty ==
    /\ search.pc = "returned"
    /\ search.candidates = <<>>
    /\ search.returned = <<>>

\* C17: when get_semantic_matches or get_bm25_matches fails inside
\* hybrid_rrf_search, the call goes on to no fusion and no hydration: a call that
\* holds result lists or rows had no failing index query, and a call in which one
\* failed does nothing more than hand the exception to its caller.
C17_AdapterFailureFailsQuery ==
    [][/\ search'.pc \in {"retrieved", "done"} => search'.failed = "none"
       /\ search.pc = "raised" => search'.pc \in {"raised", "idle"}
       /\ (search.pc = "idle" /\ search'.pc = "raised") =>
             search'.failed \in Adapters]_vars

\* the BM25 query has failed after the semantic query gave a list with an item
\* that a Project owns, and the call has raised
C17_Witness ==
    /\ search.pc = "raised"
    /\ search.failed = "bm25"
    /\ search.semantic_results # <<>>
    /\ Range(search.semantic_results) \cap OwnedIds(store) # {}
====
